---- MODULE Spec2Model ----
(***************************************************************************)
(* Model of src/server.js: the express routes for team registration,       *)
(* login and the post resource, with each request a suspendable task that  *)
(* yields at its awaits.                                                    *)
(*                                                                         *)
(* Collaborators that are not in src/ (the database behind models/team and *)
(* models/Post, middleware/auth, express-validator, jsonwebtoken) appear   *)
(* only through the calls server.js makes on them.  The database outlives  *)
(* the process, so the initial store holds arbitrary earlier content, and  *)
(* a client may present any token, among them ones validly signed with the *)
(* configured key.  Store calls are taken to answer (no connection loss),  *)
(* and path ids are well-formed document ids, stored or not.               *)
(*                                                                         *)
(* JavaScript scoping decides several handlers: `let team = await          *)
(* team.findOne(..)` (line 61) declares a block-scoped `team` that shadows *)
(* the imported model inside the whole try block, so the initializer reads *)
(* the local binding before it is initialized and throws (a ReferenceError *)
(* natively, a TypeError on undefined after a let->var transpilation).     *)
(* Either way control goes to the catch clause.  The same holds at lines   *)
(* 97, 122 and 190.                                                        *)
(***************************************************************************)
EXTENDS Integers, FiniteSets, Sequences, TLC

\* Number of requests of one run; all of them may be in flight at once.
MaxRequests == 2

Slots == 1..MaxRequests

Names == {"Reds", "Blues"}
Secrets == {"s1", "s2"}
TeamIds == {1, 2}
PostIds == {1, 2}
\* "" stands for a missing or empty field of the request body (both falsy).
TitleInputs == {"", "u"}
BodyInputs == {"", "c"}
Tokens == {"none", "bad", "expired", "ok1", "ok2"}

Routes == {"register", "login", "authGet", "createPost", "listPosts",
           "getPost", "deletePost", "putPost"}

\* The route table with `auth` left out of the DELETE route's list.
ProtectedRoutesNoDelete == {"authGet", "createPost", "listPosts", "getPost",
                            "putPost"}

\* Routes whose middleware list starts with `auth`.
ProtectedRoutes == {"authGet", "createPost", "listPosts", "getPost",
                    "deletePost", "putPost"}

\* Routes with an :id path parameter.
IdRoutes == {"getPost", "deletePost", "putPost"}

\* bcrypt.hash(players, salt): a value that is not the plaintext.
Hash(secret) == <<"bcrypt", secret>>

\* bcrypt.compare(players, stored)
Compare(secret, stored) == stored = Hash(secret)

IsHash(v) == v \in {Hash(x) : x \in Secrets}

\* jwt verification in middleware/auth: the identity a token carries, 0 when
\* the token is missing, not validly signed, or expired (request rejected).
Verify(tok) ==
    CASE tok = "ok1" -> 1
      [] tok = "ok2" -> 2
      [] OTHER -> 0

VARIABLES teams, posts, reqs

vars == <<teams, posts, reqs>>

Idle == [route |-> "idle", pc |-> "idle", tok |-> "none", id |-> 0,
         name |-> "", players |-> "", valid |-> FALSE, title |-> "",
         body |-> "", status |-> 0, ran |-> FALSE, after |-> FALSE,
         known |-> FALSE, user |-> 0, token |-> FALSE, tokenId |-> 0]

PostOf(id) == {p \in posts : p.id = id}

StoredNames == {t.name : t \in teams}

\* Post ids whose removal has been acknowledged to a client.
RemovedAcked ==
    {reqs[s].id : s \in {x \in Slots : /\ reqs[x].route = "deletePost"
                                       /\ reqs[x].pc = "done"
                                       /\ reqs[x].status = 200}}

\* Names for which a valid registration has already been answered.
RegisteredOnce ==
    {reqs[s].name : s \in {x \in Slots : /\ reqs[x].route = "register"
                                         /\ reqs[x].pc = "done"
                                         /\ reqs[x].valid}}

\* Earlier content of the post collection: post 1 of team 1, and post 2
\* absent or of either team (the other cases are these with ids renamed).
InitPosts ==
    {{[id |-> 1, team |-> 1, title |-> "t", body |-> "b"]} \cup extra :
        extra \in {{}} \cup {{[id |-> 2, team |-> o, title |-> "t", body |-> "b"]} :
                                o \in TeamIds}}

Init ==
    /\ teams = {[id |-> 1, name |-> "Reds", players |-> Hash("s1")]}
    /\ posts \in InitPosts
    /\ reqs = [s \in Slots |-> Idle]

Respond(s, r, code) ==
    reqs' = [reqs EXCEPT ![s] = [r EXCEPT !.pc = "done", !.status = code]]

\* A request enters its route's middleware list.  The auth middleware reads
\* no shared state, so it runs here: a rejected request is answered 401 and
\* the list stops; otherwise the route's handler is scheduled.  The path
\* parameter and the body are drawn where the handler first reads them.
Request(s) ==
    /\ reqs[s].pc = "idle"
    /\ \A x \in Slots : x < s => reqs[x].pc # "idle"
    /\ \E route \in Routes, tok \in Tokens :
         /\ route \in ProtectedRoutes \/ tok = "none"
         /\ LET r == [Idle EXCEPT !.route = route, !.tok = tok]
            IN  IF route \in ProtectedRoutes /\ Verify(tok) = 0
                THEN Respond(s, r, 401)
                ELSE reqs' = [reqs EXCEPT ![s] = [r EXCEPT !.pc = "handler"]]
    /\ UNCHANGED <<teams, posts>>

\* POST /api/team
RegisterHandler(s) ==
    /\ reqs[s].route = "register" /\ reqs[s].pc = "handler"
    /\ \E name \in Names, players \in Secrets, valid \in BOOLEAN :
         LET r == [reqs[s] EXCEPT !.ran = TRUE, !.name = name,
                                  !.players = players, !.valid = valid,
                                  !.after = (name \in RegisteredOnce),
                                  !.known = (name \in StoredNames)]
         IN  IF ~valid
             THEN Respond(s, r, 422)
             ELSE Respond(s, r, 500)   \* line 61 throws; catch at 84
    /\ UNCHANGED <<teams, posts>>

\* GET /api/auth
AuthGetHandler(s) ==
    /\ reqs[s].route = "authGet" /\ reqs[s].pc = "handler"
    /\ Respond(s, [reqs[s] EXCEPT !.ran = TRUE], 500)   \* line 97 throws; catch at 99
    /\ UNCHANGED <<teams, posts>>

\* POST /api/registration
LoginHandler(s) ==
    /\ reqs[s].route = "login" /\ reqs[s].pc = "handler"
    /\ \E name \in Names, players \in Secrets, valid \in BOOLEAN :
         LET r == [reqs[s] EXCEPT !.ran = TRUE, !.name = name,
                                  !.players = players, !.valid = valid,
                                  !.known = (name \in StoredNames)]
         IN  IF ~valid
             THEN Respond(s, r, 422)
             ELSE Respond(s, r, 500)   \* line 122 throws; catch at 139
    /\ UNCHANGED <<teams, posts>>

\* POST /api/posts
CreatePostHandler(s) ==
    /\ reqs[s].route = "createPost" /\ reqs[s].pc = "handler"
    /\ \E title \in TitleInputs, body \in BodyInputs :
         LET r == [reqs[s] EXCEPT !.ran = TRUE, !.title = title, !.body = body,
                                  !.valid = (title # "" /\ body # "")]
         IN  IF ~r.valid
             THEN Respond(s, r, 400)
             ELSE Respond(s, r, 500)   \* line 190 throws; catch at 203
    /\ UNCHANGED <<teams, posts>>

\* GET /api/posts
ListPostsHandler(s) ==
    /\ reqs[s].route = "listPosts" /\ reqs[s].pc = "handler"
    /\ Respond(s, [reqs[s] EXCEPT !.ran = TRUE], 200)
    /\ UNCHANGED <<teams, posts>>

\* GET /api/posts/:id
GetPostHandler(s) ==
    /\ reqs[s].route = "getPost" /\ reqs[s].pc = "handler"
    /\ \E id \in PostIds :
         LET r == [reqs[s] EXCEPT !.ran = TRUE, !.id = id,
                                  !.after = (id \in RemovedAcked)]
         IN  IF PostOf(r.id) = {}
             THEN Respond(s, r, 404)
             ELSE Respond(s, r, 200)
    /\ UNCHANGED <<teams, posts>>

\* The ownership test of DELETE left out.
DeleteAnyone(post, identity) == FALSE

\* The ownership test of PUT left out.
PutAnyone(post, identity) == FALSE

\* post.team.toString() !== req.team.id  (line 260)
DeleteNotAuthorized(post, identity) == post.team # identity

\* post.team.toString() !== req.team.id  (line 288)
PutNotAuthorized(post, identity) == post.team # identity

\* DELETE /api/posts/:id up to the await of post.remove()
DeleteFind(s) ==
    /\ reqs[s].route = "deletePost" /\ reqs[s].pc = "handler"
    /\ \E id \in PostIds :
         LET r == [reqs[s] EXCEPT !.ran = TRUE, !.id = id]
             identity == Verify(r.tok)
         IN  IF PostOf(r.id) = {}
             THEN Respond(s, r, 404)
             ELSE IF identity = 0
             THEN Respond(s, r, 500)   \* req.team is undefined: TypeError, catch at 267
             ELSE IF \E p \in PostOf(r.id) : DeleteNotAuthorized(p, identity)
             THEN Respond(s, r, 401)
             ELSE reqs' = [reqs EXCEPT ![s] = [r EXCEPT !.pc = "remove"]]
    /\ UNCHANGED <<teams, posts>>

\* DELETE /api/posts/:id from post.remove() on
DeleteRemove(s) ==
    /\ reqs[s].route = "deletePost" /\ reqs[s].pc = "remove"
    /\ posts' = posts \ PostOf(reqs[s].id)
    /\ Respond(s, reqs[s], 200)
    /\ UNCHANGED teams

\* A path the handler assigned and that differs from the loaded document:
\* the value post.save() writes, "" when the path is unmodified.
Modified(input, loaded) == IF input # "" /\ input # loaded THEN input ELSE ""

\* PUT /api/posts/:id up to the await of post.save()
PutFind(s) ==
    /\ reqs[s].route = "putPost" /\ reqs[s].pc = "handler"
    /\ \E id \in PostIds, title \in TitleInputs, body \in BodyInputs :
         LET r == [reqs[s] EXCEPT !.ran = TRUE, !.id = id]
             identity == Verify(r.tok)
         IN  IF PostOf(r.id) = {}
             THEN Respond(s, r, 404)
             ELSE IF identity = 0
             THEN Respond(s, r, 500)   \* req.team is undefined: TypeError, catch at 299
             ELSE IF \E p \in PostOf(r.id) : PutNotAuthorized(p, identity)
             THEN Respond(s, r, 401)
             ELSE \E p \in PostOf(r.id) :
                    reqs' = [reqs EXCEPT ![s] =
                               [r EXCEPT !.pc = "save",
                                         !.title = Modified(title, p.title),
                                         !.body = Modified(body, p.body)]]
    /\ UNCHANGED <<teams, posts>>

\* The document after post.save() wrote the modified paths.
Saved(p, r) ==
    [p EXCEPT !.title = IF r.title # "" THEN r.title ELSE p.title,
              !.body = IF r.body # "" THEN r.body ELSE p.body]

\* PUT /api/posts/:id from post.save() on, the document still stored
PutSave(s) ==
    /\ reqs[s].route = "putPost" /\ reqs[s].pc = "save"
    /\ PostOf(reqs[s].id) # {}
    /\ posts' = (posts \ PostOf(reqs[s].id))
                  \cup {Saved(p, reqs[s]) : p \in PostOf(reqs[s].id)}
    /\ Respond(s, [reqs[s] EXCEPT !.title = "", !.body = ""], 200)
    /\ UNCHANGED teams

\* PUT /api/posts/:id from post.save() on, the document removed meanwhile:
\* the update matches nothing and inserts nothing; save() either resolves or
\* rejects with DocumentNotFoundError (catch at 299), by mongoose version.
PutSaveGone(s) ==
    /\ reqs[s].route = "putPost" /\ reqs[s].pc = "save"
    /\ PostOf(reqs[s].id) = {}
    /\ \E code \in {200, 500} :
         Respond(s, [reqs[s] EXCEPT !.title = "", !.body = ""], code)
    /\ UNCHANGED <<teams, posts>>

Next ==
    \E s \in Slots :
        \/ Request(s)
        \/ RegisterHandler(s)
        \/ AuthGetHandler(s)
        \/ LoginHandler(s)
        \/ CreatePostHandler(s)
        \/ ListPostsHandler(s)
        \/ GetPostHandler(s)
        \/ DeleteFind(s)
        \/ DeleteRemove(s)
        \/ PutFind(s)
        \/ PutSave(s)
        \/ PutSaveGone(s)

Spec == Init /\ [][Next]_vars

(***************************************************************************)
(* returnToken(user, res), applied to every user at both of its call       *)
(* sites (lines 83 and 138, each inside the handler's try block).          *)
(* jwt.sign with a callback reports a failure by calling the callback,     *)
(* either before it returns (option and key checks) or from a later event  *)
(* (the signing stream).  The callback rethrows: in the first case the     *)
(* throw unwinds through jwt.sign and returnToken into the handler's       *)
(* catch; in the second there is no handler frame left to catch it.        *)
(***************************************************************************)

\* `team.id` at line 149: `team` is the imported model, not the `user`
\* parameter, and a model constructor has no id (0: undefined).
ImportedTeamId == 0

ReturnTokenCall(s) ==
    /\ reqs[s].pc = "idle"
    /\ \A x \in Slots : x < s => reqs[x].pc # "idle"
    /\ \E site \in {"register", "login"}, user \in TeamIds, threw \in BOOLEAN :
         LET r == [Idle EXCEPT !.route = site, !.ran = TRUE, !.valid = TRUE,
                               !.user = user]
         IN  IF threw
             THEN Respond(s, r, 500)   \* catch at 84 / 139
             ELSE reqs' = [reqs EXCEPT ![s] = [r EXCEPT !.pc = "sign"]]
    /\ UNCHANGED <<teams, posts>>

\* The callback of jwt.sign (lines 157-160), called after returnToken returned.
SignCallback(s) ==
    /\ reqs[s].pc = "sign"
    /\ \E err \in BOOLEAN :
         IF err
         THEN reqs' = [reqs EXCEPT ![s].pc = "uncaught"]   \* throw err, line 158
         ELSE Respond(s, [reqs[s] EXCEPT !.token = TRUE,
                                         !.tokenId = ImportedTeamId], 200)
    /\ UNCHANGED <<teams, posts>>

NextReturnToken == \E s \in Slots : ReturnTokenCall(s) \/ SignCallback(s)

SpecReturnToken == Init /\ [][NextReturnToken]_vars

----------------------------------------------------------------------------
Done(s, route) == reqs[s].route = route /\ reqs[s].pc = "done"

Named(name) == {t \in teams : t.name = name}

\* C1: a valid registration handled after a valid registration under the
\* same name was answered is rejected with Conflict (400, not a server
\* error) and the store holds no second record of that name.
C1_DuplicateRejected ==
    \A s \in Slots :
        (Done(s, "register") /\ reqs[s].valid /\ reqs[s].after)
            => /\ reqs[s].status = 400
               /\ Cardinality(Named(reqs[s].name)) <= 1

\* C2: a valid registration under a name not yet stored succeeds, creates
\* exactly one record and answers with a token carrying that record's id.
C2_RegistrationIssuesToken ==
    \A s \in Slots :
        (Done(s, "register") /\ reqs[s].valid /\ ~reqs[s].known)
            => /\ reqs[s].status = 200
               /\ reqs[s].token
               /\ Cardinality(Named(reqs[s].name)) = 1
               /\ \A t \in Named(reqs[s].name) : reqs[s].tokenId = t.id

C4_LoginOutcome ==
    \A s \in Slots :
        (Done(s, "login") /\ reqs[s].valid)
            => LET matching == {t \in Named(reqs[s].name) :
                                   Compare(reqs[s].players, t.players)}
               IN  IF matching = {}
                   THEN reqs[s].status = 400 /\ ~reqs[s].token
                   ELSE /\ reqs[s].status = 200
                        /\ reqs[s].token
                        /\ \E t \in matching : reqs[s].tokenId = t.id

\* The protected routes as the claim lists them.
C5_Routes == {"authGet", "createPost", "listPosts", "getPost", "deletePost",
              "putPost"}

C5_Rejected ==
    \A s \in Slots :
        (reqs[s].route \in C5_Routes /\ Verify(reqs[s].tok) = 0)
            => reqs[s].pc = "done" /\ reqs[s].status = 401 /\ ~reqs[s].ran

C5_StoreStep ==
    posts' # posts
        => \E s \in Slots : reqs'[s] # reqs[s] /\ Verify(reqs[s].tok) # 0

\* C5: on every protected route a request whose token is missing, invalid
\* or expired is answered 401 by the auth gate, its handler never runs, and
\* no step of such a request changes the post store.
C5_AuthGate == []C5_Rejected /\ [][C5_StoreStep]_vars

C5_Witness ==
    \E s \in Slots :
        /\ Done(s, "deletePost") /\ reqs[s].tok = "expired"
        /\ reqs[s].status = 401
        /\ \E x \in Slots : Done(x, "putPost") /\ reqs[x].tok = "none"

C6_FetchAfterRemoval ==
    \A s \in Slots :
        (Done(s, "getPost") /\ reqs[s].after) => reqs[s].status = 404

C6_DeleteStep ==
    \A s \in Slots :
        (reqs[s].route = "deletePost" /\ reqs'[s] # reqs[s])
            => LET id == reqs'[s].id
                   held == {p \in posts : p.id = id}
               IN  IF reqs[s].pc = "handler"
                   THEN /\ (\E p \in held : p.team # Verify(reqs[s].tok))
                              => /\ reqs'[s].pc = "done"
                                 /\ reqs'[s].status = 401
                                 /\ posts' = posts
                        /\ (\E p \in held : p.team = Verify(reqs[s].tok))
                              => reqs'[s].pc = "remove"
                   ELSE /\ reqs'[s].pc = "done"
                        /\ reqs'[s].status = 200
                        /\ {p \in posts' : p.id = id} = {}

\* C6: deleting a stored post as another identity than its owner is answered
\* Forbidden (401 'team not authorized') and leaves the store as it is;
\* deleting it as the owner removes it and is answered with success, and
\* every fetch of that id handled after that answer is answered NotFound.
C6_DeleteByOwnerOnly == []C6_FetchAfterRemoval /\ [][C6_DeleteStep]_vars

C6_Witness ==
    \E s, d \in Slots :
        /\ Done(s, "getPost") /\ reqs[s].after /\ reqs[s].status = 404
        /\ Done(d, "deletePost") /\ reqs[d].status = 200 /\ reqs[d].id = reqs[s].id

C7_Step ==
    /\ \A p \in posts : \A q \in posts' :
         q.id = p.id
            => /\ q.team = p.team
               /\ q # p => \E s \in Slots :
                              /\ reqs[s].route = "putPost"
                              /\ reqs[s].pc = "save" /\ reqs'[s].pc = "done"
                              /\ reqs[s].id = p.id
                              /\ Verify(reqs[s].tok) = p.team
    /\ \A s \in Slots :
         (reqs[s].route = "putPost" /\ reqs[s].pc = "handler" /\ reqs'[s] # reqs[s])
            => LET held == {p \in posts : p.id = reqs'[s].id}
               IN  /\ held = {}
                        => /\ reqs'[s].pc = "done" /\ reqs'[s].status = 404
                           /\ posts' = posts
                   /\ (\E p \in held : p.team # Verify(reqs[s].tok))
                        => /\ reqs'[s].pc = "done" /\ reqs'[s].status = 401
                           /\ posts' = posts

\* C7: a stored post never changes its owner; its title and body change
\* only in the save step of an update whose identity is the post's owner;
\* an update by another identity is answered Forbidden (401) and an update
\* of an id that does not resolve NotFound (404), the store unchanged.
C7_UpdateByOwnerOnly == [][C7_Step]_vars

C7_Witness ==
    \E s \in Slots :
        /\ Done(s, "putPost") /\ reqs[s].status = 200
        /\ \E p \in posts : p.id = reqs[s].id /\ p.title = "u" /\ p.body = "b"
                            /\ p.team = Verify(reqs[s].tok)

\* C8: creating a post with a valid token and a non-empty title and body is
\* answered with success, and the store holds a post of the requester with
\* the submitted title and body.
C8_CreateSucceeds ==
    \A s \in Slots :
        (Done(s, "createPost") /\ reqs[s].valid)
            => /\ reqs[s].status = 200
               /\ \E p \in posts : /\ p.team = Verify(reqs[s].tok)
                                   /\ p.title = reqs[s].title
                                   /\ p.body = reqs[s].body

====
